---------------------------- MODULE Spec2Model ----------------------------
(***************************************************************************)
(* A model of 2_clustering/gnn_cluster.ipynb: the edge-weighting kernel,   *)
(* the GNN layer and the GNN, the hinge-embedding loss over the augmented  *)
(* graph, the training loop, the embedding of the samples, DBSCAN and the  *)
(* final scoring cell.                                                     *)
(*                                                                         *)
(* Numbers.  Tensors of reals are modelled over the integers.  A node's    *)
(* feature vector has width 1 (one integer per node), so torch.cat of two  *)
(* feature rows is the pair <<a, b>> and a Linear layer on it is           *)
(* w[1]*a + w[2]*b + bias.  Sigmoid values are in tenths (0..10).          *)
(* Embedding coordinates, distances, the hinge margin and DBSCAN's eps are *)
(* in hundredths.  Hit weights and event scores are in hundredths.         *)
(* Python's node / edge / sample index k is k+1 here (sequences start      *)
(* at 1).                                                                  *)
(***************************************************************************)
EXTENDS Integers, Sequences, FiniteSets, TLC

VARIABLES
    pc,            \* position of the running cell / call
    net,           \* the GNN: layers, final_emb, training flag
    \* GNN.forward and GNN_Layer.forward
    g,             \* the DGL graph handed to GNN.forward
    emb,           \* GNN.forward's local emb
    features,      \* GNN_Layer.forward's local features
    layer_i,       \* GNN.forward's loop index over self.layers
    \* the loss of one training batch
    g_true,        \* the augmented graph handed to get_emb_for_loss
    loss,          \* loss = g_true.edata.pop('loss').mean()
    score,         \* score = score_dist_accuracy(...), in percent
    \* the notebook's cells
    dataset,       \* dataset = TrackML_Dataset(samples)
    dataloader,    \* the DataLoader's batch_size, shuffle, drop_last
    rng,           \* torch's random generator, which the shuffling draws on
    epoch,         \* epochs of the training loop that have finished
    order,         \* the sample order the running epoch's iterator drew
    batch_i,       \* batches of the running epoch that have been trained on
    optim_steps,   \* optimizer steps taken (Adamax's step count)
    grad_enabled,  \* torch's gradient tracking
    pid,           \* pid, weight, emb_gnn: the lists of the embed cell
    weight,
    emb_gnn,
    score_i,       \* samples the scoring loop has scored
    truth,         \* the tables last handed to score_event
    submission,
    avg_score,
    printed        \* the number the last cell prints, in hundredths

gnnVars == <<g, emb, features, layer_i>>
lossVars == <<g_true, loss, score>>
cellVars == <<dataset, dataloader, rng, epoch, order, batch_i, optim_steps,
              grad_enabled, pid, weight, emb_gnn, score_i, truth,
              submission, avg_score, printed>>
vars == <<pc, net, gnnVars, lossVars, cellVars>>

\* ----------------------------------------------------------------- bounds
MaxNodes == 3
MaxEdges == 2

\* the dataset has nb_samples samples and up to MaxExtra more
MaxExtra == 1

\* ------------------------------------------------------ program constants
nb_layers == 4
batch_size == 4
nb_epochs == 20
nb_samples == 20

\* ------------------------------------------------------------ arithmetic
Abs(x) == IF x < 0 THEN -x ELSE x
Max(a, b) == IF a > b THEN a ELSE b
Min(a, b) == IF a < b THEN a ELSE b

\* the rows of a tensor, held as a sequence
Tensor(rows) == rows \o <<>>

RECURSIVE SumSeq(_)
SumSeq(s) == IF s = <<>> THEN 0 ELSE Head(s) + SumSeq(Tail(s))

RECURSIVE SqrtIter(_, _, _)
SqrtIter(v, lo, hi) ==
    IF lo >= hi THEN lo
    ELSE LET mid == (lo + hi + 1) \div 2
         IN  IF mid * mid <= v THEN SqrtIter(v, mid, hi)
             ELSE SqrtIter(v, lo, mid - 1)

\* floor of the square root
ISqrt(v) == SqrtIter(v, 0, Min(v, 46340))

\* --------------------------------------------------------- torch modules
\* torch.cat((a, b), dim=1) of two width-1 rows
Cat(a, b) == <<a, b>>

\* nn.Linear to one output: lin.w . v + lin.b
Linear(lin, v) == SumSeq([k \in 1..Len(v) |-> lin.w[k] * v[k]]) + lin.b

ReLU(x) == Max(x, 0)

\* nn.Sigmoid, in tenths, rounded: 1/(1+exp(-t)) at t = -3..3 is
\* .05 .12 .27 .50 .73 .88 .95, and closer to 0 or to 1 beyond
Sigmoid(t) ==
    CASE t <= -3 -> 0
      [] t = -2  -> 1
      [] t = -1  -> 3
      [] t = 0   -> 5
      [] t = 1   -> 7
      [] t = 2   -> 9
      [] OTHER   -> 10

\* nn.BatchNorm1d(input_dim, momentum=0.10) on the rows x of one batch.
\* Training mode normalizes by the batch's mean and variance and moves the
\* running statistics towards them by the momentum (1/10); evaluation mode
\* normalizes by the running statistics and leaves them alone.  sqrt(var +
\* eps) is the integer square root, at least 1.
BatchMean(x) == SumSeq(x) \div Len(x)
BatchVar(x) ==
    LET m == BatchMean(x)
    IN  SumSeq([k \in 1..Len(x) |-> (x[k] - m) * (x[k] - m)]) \div Len(x)
BatchNorm1d(bn, training, x) ==
    LET m  == IF training THEN BatchMean(x) ELSE bn.running_mean
        v  == IF training THEN BatchVar(x) ELSE bn.running_var
        sd == Max(1, ISqrt(v))
    IN  [out |-> Tensor([k \in 1..Len(x) |->
                    (bn.weight * (x[k] - m)) \div sd + bn.bias]),
         bn  |-> IF training
                 THEN [bn EXCEPT
                        !.running_mean = (9 * @ + BatchMean(x)) \div 10,
                        !.running_var = (9 * @ + BatchVar(x)) \div 10,
                        !.num_batches_tracked = @ + 1]
                 ELSE bn]

\* ------------------------------------------------------------ DGL graph
\* A graph is [n, src, dst, ndata, edata]: n nodes 1..n, edge k goes from
\* src[k] to dst[k], ndata / edata are the frames: field name -> one row
\* per node / per edge.
NbEdges(gr) == Len(gr.src)
NoFields == [f \in {} |-> <<>>]
\* the fields of a frame, held as a finite map
Frame(fields) == fields @@ NoFields
SetField(frame, name, rows) == (name :> rows) @@ frame
PopField(frame, name) == Frame([f \in DOMAIN frame \ {name} |-> frame[f]])

\* ------------------------------------------------------- MLP_Kernel_DGL
\* MLP_Kernel_DGL.mlp on one edge whose source node has features srcfeat
\* and whose destination node has features dstfeat
KernelMlp(kernel, srcfeat, dstfeat) ==
    LET e_feats == Cat(srcfeat, dstfeat)
        hidden  == ReLU(Linear(kernel.layers[1], e_feats))
    IN  Sigmoid(Linear(kernel.layers[2], <<hidden>>))

\* a kernel that weights only a graph that has no weights yet
KernelForwardKeepsOld(kernel, gr) ==
    IF "e" \in DOMAIN gr.edata THEN gr
    ELSE [gr EXCEPT !.edata = SetField(@, "e",
            Tensor([k \in 1..NbEdges(gr) |->
                KernelMlp(kernel, gr.ndata["feat"][gr.src[k]],
                                  gr.ndata["feat"][gr.dst[k]])]))]

\* MLP_Kernel_DGL.forward: g.apply_edges(self.mlp) writes edata['e'] of
\* every edge
KernelForward(kernel, gr) ==
    [gr EXCEPT !.edata = SetField(@, "e",
        Tensor([k \in 1..NbEdges(gr) |->
            KernelMlp(kernel, gr.ndata["feat"][gr.src[k]],
                              gr.ndata["feat"][gr.dst[k]])]))]

\* ------------------------------------------------------------ GNN_Layer
\* "maybe apply normalization" and g.ndata['feat'] = features
LayerNormalize(layer, training, feats) ==
    IF layer.apply_norm
    THEN BatchNorm1d(layer.bn, training, feats)
    ELSE [out |-> feats, bn |-> layer.bn]

\* v_mul_e: the destination node's feat in the source's place
MessageFuncDst(gr, k) == gr.ndata["feat"][gr.dst[k]] * gr.edata["e"][k]

\* dgl.function.u_mul_e('feat', 'e', 'msg'): the message of edge k is its
\* source node's feat times its own e
MessageFunc(gr, k) == gr.ndata["feat"][gr.src[k]] * gr.edata["e"][k]

RECURSIVE SumMailbox(_, _, _)
SumMailbox(gr, i, k) ==
    IF k = 0 THEN 0
    ELSE SumMailbox(gr, i, k - 1)
         + (IF gr.dst[k] = i THEN MessageFunc(gr, k) ELSE 0)

\* dgl.function.sum('msg', 'agg_msg'): a node sums the messages of the
\* edges that enter it
ReduceFunc(gr, i) == SumMailbox(gr, i, NbEdges(gr))

\* g.update_all(message_func, reduce_func)
UpdateAll(gr) ==
    [gr EXCEPT !.ndata = SetField(@, "agg_msg",
        Tensor([i \in 1..gr.n |-> ReduceFunc(gr, i)]))]

\* "concat and apply an affine transformation", then ReLU
NodeApply(layer, feats, gr) ==
    Tensor([i \in 1..gr.n |->
        ReLU(Linear(layer.fc, Cat(feats[i], gr.ndata["agg_msg"][i])))])

\* ------------------------------------------------------------ the model
\* Parameters as GNN.__init__ lays them out; the values stand for what
\* initialisation and training left in them.
KernelA == [layers |-> <<[w |-> <<1, -1>>, b |-> 1], [w |-> <<1>>, b |-> -2]>>]
KernelB == [layers |-> <<[w |-> <<-1, 2>>, b |-> 0], [w |-> <<-1>>, b |-> 1]>>]
KernelChoices == {KernelA, KernelB}

NewBatchNorm ==
    [weight |-> 1, bias |-> 0, running_mean |-> 0, running_var |-> 1,
     num_batches_tracked |-> 0]

NewLayer(kernel, apply_norm) ==
    [edge_weighting |-> kernel,
     \* self.bn is None when apply_norm is false
     apply_norm |-> apply_norm,
     bn |-> [NewBatchNorm EXCEPT !.weight = 2, !.bias = 1],
     fc |-> [w |-> <<3, 1>>, b |-> -1]]

NewGNN(nb_layer) ==
    [layers |-> [l \in 1..nb_layer |->
                    NewLayer(IF l % 2 = 1 THEN KernelA ELSE KernelB, TRUE)],
     final_emb |-> [w |-> <<7>>, b |-> -20],
     training |-> TRUE]

\* self.final_emb(emb)
FinalEmb(model, rows) ==
    Tensor([i \in 1..Len(rows) |-> Linear(model.final_emb, <<rows[i]>>)])

\* --------------------------------------------- GNN.forward, step by step
\* emb = g.ndata.pop('feat')
GNNPop ==
    /\ pc = "pop"
    /\ emb' = g.ndata["feat"]
    /\ g' = [g EXCEPT !.ndata = PopField(@, "feat")]
    /\ layer_i' = 1
    /\ pc' = "bn"
    /\ UNCHANGED <<net, features, lossVars, cellVars>>

\* GNN_Layer.forward: features = self.bn(features); g.ndata['feat'] = features
LayerBn ==
    /\ pc = "bn"
    /\ LET r == LayerNormalize(net.layers[layer_i], net.training, emb)
       IN  /\ features' = r.out
           /\ g' = [g EXCEPT !.ndata = SetField(@, "feat", r.out)]
           /\ net' = [net EXCEPT !.layers[layer_i].bn = r.bn]
    /\ pc' = "edge_weighting"
    /\ UNCHANGED <<emb, layer_i, lossVars, cellVars>>

\* GNN_Layer.forward: g = self.edge_weighting(g)
LayerEdgeWeighting ==
    /\ pc = "edge_weighting"
    /\ g' = KernelForward(net.layers[layer_i].edge_weighting, g)
    /\ pc' = "update_all"
    /\ UNCHANGED <<net, emb, features, layer_i, lossVars, cellVars>>

\* GNN_Layer.forward: g.update_all(...)
LayerUpdateAll ==
    /\ pc = "update_all"
    /\ g' = UpdateAll(g)
    /\ pc' = "fc"
    /\ UNCHANGED <<net, emb, features, layer_i, lossVars, cellVars>>

\* GNN_Layer.forward: emb = self.act(self.fc(node_feats)); return emb, and
\* GNN.forward's loop goes on to the next layer
LayerFc ==
    /\ pc = "fc"
    /\ emb' = NodeApply(net.layers[layer_i], features, g)
    /\ layer_i' = layer_i + 1
    /\ pc' = IF layer_i < Len(net.layers) THEN "bn" ELSE "final_emb"
    /\ UNCHANGED <<net, g, features, lossVars, cellVars>>

\* emb = self.final_emb(emb); return emb
GNNFinalEmb ==
    /\ pc = "final_emb"
    /\ emb' = FinalEmb(net, emb)
    /\ pc' = "done"
    /\ UNCHANGED <<net, g, features, layer_i, lossVars, cellVars>>

\* ------------------------------------------------ the graphs of SpecGNN
FeatValues == {0, 2}

Pairs(n) == (1..n) \X (1..n)

\* the edges of a set, in the order of their (src, dst) pairs
RECURSIVE EdgeSeq(_)
EdgeSeq(S) ==
    IF S = {} THEN <<>>
    ELSE LET e == CHOOSE x \in S : \A y \in S :
                      x[1] < y[1] \/ (x[1] = y[1] /\ x[2] <= y[2])
         IN  <<e>> \o EdgeSeq(S \ {e})

EdgeSets(n) == {S \in SUBSET Pairs(n) : Cardinality(S) <= MaxEdges}

Graph(n, E, feat) ==
    LET es == EdgeSeq(E)
    IN  [n |-> n,
         src |-> [k \in 1..Len(es) |-> es[k][1]],
         dst |-> [k \in 1..Len(es) |-> es[k][2]],
         ndata |-> [f \in {"feat"} |-> feat],
         edata |-> NoFields]

NoGraph == [n |-> 0, src |-> <<>>, dst |-> <<>>,
            ndata |-> NoFields, edata |-> NoFields]

\* the variables of the parts a specification leaves out
GNNIdle == g = NoGraph /\ emb = <<>> /\ features = <<>> /\ layer_i = 0
LossIdle == g_true = NoGraph /\ loss = 0 /\ score = 0
NoLoader == [batch_size |-> 1, shuffle |-> FALSE, drop_last |-> FALSE]
NoTable == [hit_id |-> <<>>]
CellsIdle ==
    /\ dataset = <<>> /\ dataloader = NoLoader /\ rng = 0 /\ epoch = 0
    /\ order = <<>>
    /\ batch_i = 0 /\ optim_steps = 0 /\ grad_enabled = TRUE
    /\ pid = <<>> /\ weight = <<>> /\ emb_gnn = <<>> /\ score_i = 0
    /\ truth = NoTable /\ submission = NoTable /\ avg_score = 0
    /\ printed = 0

InitGNN ==
    /\ pc = "pop"
    /\ \E training \in BOOLEAN :
          net = [NewGNN(nb_layers) EXCEPT !.training = training]
    /\ \E n \in 1..MaxNodes : \E E \in EdgeSets(n) :
       \E feat \in [1..n -> FeatValues] :
          g = Graph(n, E, feat)
    \* BatchNorm1d in training mode refuses a batch of one row
    /\ net.training => g.n > 1
    /\ emb = <<>>
    /\ features = <<>>
    /\ layer_i = 0
    /\ LossIdle
    /\ CellsIdle

NextGNN ==
    \/ GNNPop
    \/ LayerBn
    \/ LayerEdgeWeighting
    \/ LayerUpdateAll
    \/ LayerFc
    \/ GNNFinalEmb

SpecGNN == InitGNN /\ [][NextGNN]_vars

\* ------------------------------------------------- claims about the layer
RECURSIVE SumOver(_, _)
SumOver(S, f) ==
    IF S = {} THEN 0
    ELSE LET x == CHOOSE y \in S : TRUE
         IN  f[x] + SumOver(S \ {x}, f)

\* the edges that enter node i
InEdges(i) == {k \in 1..NbEdges(g) : g.dst[k] = i}

\* the layer whose forward is running, and the one that has just returned
ThisLayer == net.layers[layer_i]
InLayer == pc \in {"edge_weighting", "update_all", "fc"}

\* C2: inside GNN_Layer.forward the features the graph holds are the
\* layer's normalization of the features it was given; once the edge
\* weights are set they are this layer's kernel on these normalized
\* features, for every edge; and the aggregate that update_all leaves is
\* the sum of messages made of exactly these features and these weights.
C2_LayerOrder ==
    /\ InLayer =>
          /\ features = LayerNormalize(ThisLayer, net.training, emb).out
          /\ g.ndata["feat"] = features
    /\ pc \in {"update_all", "fc"} =>
          \A k \in 1..NbEdges(g) :
             g.edata["e"][k] =
                KernelMlp(ThisLayer.edge_weighting,
                          features[g.src[k]], features[g.dst[k]])
    /\ pc = "fc" =>
          \A i \in 1..g.n :
             g.ndata["agg_msg"][i] =
                SumOver(InEdges(i),
                    [k \in InEdges(i) |->
                        features[g.src[k]] *
                        KernelMlp(ThisLayer.edge_weighting,
                                  features[g.src[k]], features[g.dst[k]])])

\* a later layer has aggregated over a graph that an earlier layer weighted
C2_Witness ==
    /\ pc = "fc"
    /\ layer_i = nb_layers
    /\ NbEdges(g) = MaxEdges
    /\ \E k \in 1..NbEdges(g) : g.edata["e"][k] # 0 /\ features[g.src[k]] # 0

\* C3: after update_all, z_i = g.ndata['agg_msg'][i] is the sum, over the
\* edges entering i, of the edge's weight times its source's features; it
\* is 0 for a node no edge enters; and the layer returns
\* ReLU(fc([x_i, z_i])), own features first.
C3_Aggregate ==
    /\ pc = "fc" =>
          \A i \in 1..g.n :
             /\ g.ndata["agg_msg"][i] =
                   SumOver(InEdges(i),
                       [k \in InEdges(i) |->
                           g.edata["e"][k] * g.ndata["feat"][g.src[k]]])
             /\ InEdges(i) = {} => g.ndata["agg_msg"][i] = 0
    /\ (pc \in {"bn", "final_emb"} /\ layer_i > 1) =>
          \A i \in 1..g.n :
             emb[i] =
                LET fc == net.layers[layer_i - 1].fc
                    z  == SumOver(InEdges(i),
                              [k \in InEdges(i) |->
                                  g.edata["e"][k] * g.ndata["feat"][g.src[k]]])
                IN  Max(0, fc.w[1] * g.ndata["feat"][i] + fc.w[2] * z + fc.b)

\* a layer has returned on a graph where one node has two entering edges
\* with nonzero messages and another node has none
C3_Witness ==
    /\ pc \in {"bn", "final_emb"}
    /\ layer_i > 1
    /\ \E i \in 1..g.n :
          /\ Cardinality(InEdges(i)) = 2
          /\ \A k \in InEdges(i) :
                g.edata["e"][k] * g.ndata["feat"][g.src[k]] # 0
          /\ emb[i] # 0
    /\ \E i \in 1..g.n : InEdges(i) = {}

\* the kernel of the Graph Weighting text on the edge that brings x_j to
\* node i: sigmoid(f([x_i, x_j])), the receiving node's features first
KernelAsClaimed(kernel, x_i, x_j) ==
    Sigmoid(Linear(kernel.layers[2],
                   <<ReLU(Linear(kernel.layers[1], <<x_i, x_j>>))>>))

\* C4: the weight that multiplies x_j in z_i is sigmoid(f([x_i, x_j])),
\* with the receiving node i's features first and the sending neighbour
\* j's second, for every edge.
C4_ReceiverFirst ==
    pc \in {"update_all", "fc"} =>
       \A k \in 1..NbEdges(g) :
          g.edata["e"][k] =
             KernelAsClaimed(ThisLayer.edge_weighting,
                             g.ndata["feat"][g.dst[k]],
                             g.ndata["feat"][g.src[k]])

\* ------------------------------------------------------------- the loss
\* nn.functional.pairwise_distance of two width-1 rows
PairwiseDistance(a, b) == Abs(a - b)

\* hinge_embedding_loss's default margin, 1.0
Margin == 100

\* the target left as the 0/1 label
TrueDistUnmapped(t) == t

\* true_dist = truth*2 - 1
TrueDist(t) == t * 2 - 1

\* nn.functional.hinge_embedding_loss(input, target, reduction='none') on
\* one element: where(target != 1, clamp_min(margin - input, 0), 0) +
\* where(target != -1, input, 0)
HingeEmbeddingLoss(input, target) ==
    (IF target # 1 THEN Max(Margin - input, 0) ELSE 0)
    + (IF target # -1 THEN input ELSE 0)

\* get_emb_for_loss on edge k of the augmented graph
get_emb_for_loss(gr, k) ==
    LET src       == gr.ndata["emb"][gr.src[k]]
        dst       == gr.ndata["emb"][gr.dst[k]]
        pred_dist == PairwiseDistance(src, dst)
        true_dist == TrueDist(gr.edata["truth"][k])
    IN  [loss |-> HingeEmbeddingLoss(pred_dist, true_dist),
         pred_dist |-> pred_dist,
         true_dist |-> true_dist]

\* g_true.apply_edges(get_emb_for_loss)
ApplyEdgesLoss(gr) ==
    LET r == Tensor([k \in 1..NbEdges(gr) |-> get_emb_for_loss(gr, k)])
    IN  [gr EXCEPT !.edata =
            SetField(SetField(SetField(@,
                "loss", Tensor([k \in 1..NbEdges(gr) |-> r[k].loss])),
                "pred_dist", Tensor([k \in 1..NbEdges(gr) |-> r[k].pred_dist])),
                "true_dist", Tensor([k \in 1..NbEdges(gr) |-> r[k].true_dist]))]

\* tensor.mean()
Mean(rows) == SumSeq(rows) \div Len(rows)

\* tensor.round() of a distance in hundredths, to whole units, half to even
RoundUnits(x) ==
    LET q == x \div 100
        r == x % 100
    IN  IF r > 50 \/ (r = 50 /\ q % 2 = 1) THEN q + 1 ELSE q

\* score_dist_accuracy(pred, true), in percent
score_dist_accuracy(pred, true) ==
    LET close(k)   == 1 - (IF RoundUnits(pred[k]) # 0 THEN 1 ELSE 0)
        nb_correct == Cardinality({k \in 1..Len(pred) : close(k) = true[k]})
        nb_total   == Len(true)
    IN  (100 * nb_correct) \div nb_total

\* train_one_epoch: g_true.apply_edges(get_emb_for_loss)
LossApplyEdges ==
    /\ pc = "apply_edges"
    /\ g_true' = ApplyEdgesLoss(g_true)
    /\ pc' = "pop"
    /\ UNCHANGED <<net, gnnVars, loss, score, cellVars>>

\* train_one_epoch: loss = g_true.edata.pop('loss').mean() and
\* score = score_dist_accuracy(pop('pred_dist'), pop('truth'))
LossPop ==
    /\ pc = "pop"
    /\ loss' = Mean(g_true.edata["loss"])
    /\ score' = score_dist_accuracy(g_true.edata["pred_dist"],
                                    g_true.edata["truth"])
    /\ g_true' = [g_true EXCEPT !.edata =
                    PopField(PopField(PopField(@, "loss"), "pred_dist"),
                             "truth")]
    /\ pc' = "done"
    /\ UNCHANGED <<net, gnnVars, cellVars>>

EmbValues == {0, 60, 160}

PairsUp(n) == {p \in Pairs(n) : p[1] < p[2]}

TrueGraph(n, E, embs, truths) ==
    LET es == EdgeSeq(E)
    IN  [n |-> n,
         src |-> [k \in 1..Len(es) |-> es[k][1]],
         dst |-> [k \in 1..Len(es) |-> es[k][2]],
         ndata |-> [f \in {"emb"} |-> embs],
         edata |-> [f \in {"truth"} |-> [k \in 1..Len(es) |-> truths[es[k]]]]]

InitLoss ==
    /\ pc = "apply_edges"
    /\ net = NewGNN(nb_layers)
    /\ \E n \in 2..MaxNodes :
       \E E \in {S \in SUBSET PairsUp(n) : S # {} /\ Cardinality(S) <= MaxEdges} :
       \E truths \in [E -> {0, 1}], embs \in [1..n -> EmbValues] :
          g_true = TrueGraph(n, E, embs, truths)
    /\ loss = 0
    /\ score = 0
    /\ GNNIdle
    /\ CellsIdle

NextLoss ==
    \/ LossApplyEdges
    \/ LossPop

SpecLoss == InitLoss /\ [][NextLoss]_vars

\* the distance between the embeddings of edge k's endpoints
EdgeDist(k) ==
    Abs(g_true.ndata["emb"][g_true.src[k]] - g_true.ndata["emb"][g_true.dst[k]])

\* C1: once get_emb_for_loss has run over the augmented graph, every edge
\* with label truth in {0, 1} has target y = 2*truth - 1 in {-1, 1}, loss x
\* when y = 1 and loss max(0, Margin - x) when y = -1, x being the distance
\* between its endpoints' embeddings; so a false pair at distance Margin or
\* more has loss 0 and a true pair has loss x.
C1_HingeLoss ==
    pc = "pop" =>
       \A k \in 1..NbEdges(g_true) :
          LET t == g_true.edata["truth"][k]
              y == g_true.edata["true_dist"][k]
              x == EdgeDist(k)
              l == g_true.edata["loss"][k]
          IN  /\ t \in {0, 1}
              /\ y = 2 * t - 1
              /\ y \in {-1, 1}
              /\ g_true.edata["pred_dist"][k] = x
              /\ y = 1 => l = x
              /\ y = -1 => l = (IF Margin - x > 0 THEN Margin - x ELSE 0)
              /\ (t = 0 /\ x >= Margin) => l = 0
              /\ t = 1 => l = x

\* the loss has been computed for a false pair beyond the margin, a false
\* pair inside it and a true pair at a distance
C1_Witness ==
    /\ pc = "pop"
    /\ \E k \in 1..NbEdges(g_true) :
          /\ g_true.edata["truth"][k] = 0
          /\ EdgeDist(k) > Margin
          /\ g_true.edata["loss"][k] = 0
    /\ \E k \in 1..NbEdges(g_true) :
          /\ g_true.edata["truth"][k] = 1
          /\ g_true.edata["loss"][k] > 0

\* ------------------------------------------ GNN.forward as one function
\* GNN_Layer.forward(g, features): the layer's steps in the order of its
\* body; the result is the returned emb, the graph as the call leaves it
\* and the layer with its batch-norm buffers
LayerForward(layer, training, gr, feats) ==
    LET r  == LayerNormalize(layer, training, feats)
        g1 == [gr EXCEPT !.ndata = SetField(@, "feat", r.out)]
        g2 == KernelForward(layer.edge_weighting, g1)
        g3 == UpdateAll(g2)
    IN  [emb |-> NodeApply(layer, r.out, g3),
         g |-> g3,
         layer |-> [layer EXCEPT !.bn = r.bn]]

\* for i, layer in enumerate(self.layers): emb = layer(g, emb)
RECURSIVE GNNLayers(_, _, _, _)
GNNLayers(model, gr, feats, i) ==
    IF i > Len(model.layers) THEN [emb |-> feats, g |-> gr, net |-> model]
    ELSE LET r == LayerForward(model.layers[i], model.training, gr, feats)
         IN  GNNLayers([model EXCEPT !.layers[i] = r.layer], r.g, r.emb, i + 1)

\* GNN.forward(g)
GNNForward(model, gr) ==
    LET r == GNNLayers(model, [gr EXCEPT !.ndata = PopField(@, "feat")],
                       gr.ndata["feat"], 1)
    IN  [emb |-> FinalEmb(model, r.emb),
         net |-> r.net]

\* --------------------------------------------------- dataset, DataLoader
\* dgl.batch of two graphs: the second one's nodes follow the first one's
BatchTwo(a, b) ==
    [n |-> a.n + b.n,
     src |-> a.src \o [k \in 1..Len(b.src) |-> b.src[k] + a.n],
     dst |-> a.dst \o [k \in 1..Len(b.dst) |-> b.dst[k] + a.n],
     ndata |-> Frame([f \in DOMAIN a.ndata |-> a.ndata[f] \o b.ndata[f]]),
     edata |-> Frame([f \in DOMAIN a.edata |-> a.edata[f] \o b.edata[f]])]

\* dgl.batch(graphs)
RECURSIVE Batch(_)
Batch(graphs) ==
    IF Len(graphs) = 1 THEN graphs[1]
    ELSE BatchTwo(Batch(SubSeq(graphs, 1, Len(graphs) - 1)),
                  graphs[Len(graphs)])

\* trackml_collate(samples): a sample is <<g_input, g_true>>
trackml_collate(samples) ==
    [g_input |-> Batch([k \in 1..Len(samples) |-> samples[k][1]]),
     g_true  |-> Batch([k \in 1..Len(samples) |-> samples[k][2]])]

\* the order of a loader without shuffle, handed back to front
ReversedOrder(n) == [k \in 1..n |-> n + 1 - k]

\* the order of a loader without shuffle: the dataset's
SequentialOrder(n) == [k \in 1..n |-> k]

\* len(DataLoader)
LoaderLen(loader, n) ==
    IF loader.drop_last THEN n \div loader.batch_size
    ELSE (n + loader.batch_size - 1) \div loader.batch_size

\* the sample indices of the loader's b-th batch under the sampler's order
LoaderBatch(loader, ord, b) ==
    SubSeq(ord, (b - 1) * loader.batch_size + 1,
           Min(b * loader.batch_size, Len(ord)))

\* the b-th batch the loader yields
LoaderYield(loader, data, ord, b) ==
    LET ids == LoaderBatch(loader, ord, b)
    IN  trackml_collate([k \in 1..Len(ids) |-> data[ids[k]]])

\* --------------------------------------------------------------- DBSCAN
\* c = DBSCAN(eps=.24, min_samples=3)
dbscan_eps == 24
min_samples == 3

\* the rows within eps of row k (row k among them)
Neighbors(x, k) == {j \in 1..Len(x) : Abs(x[j] - x[k]) <= dbscan_eps}
IsCore(x, k) == Cardinality(Neighbors(x, k)) >= min_samples

\* the rows a cluster grown from S reaches: the neighbours of its core rows
RECURSIVE Reach(_, _)
Reach(x, S) ==
    LET T == S \cup UNION {Neighbors(x, c) : c \in {s \in S : IsCore(x, s)}}
    IN  IF T = S THEN S ELSE Reach(x, T)

\* the loop over the rows: an unlabelled core row starts the next cluster,
\* which takes the rows it reaches that have no label yet
RECURSIVE DbscanInner(_, _, _, _)
DbscanInner(x, i, labels, label_num) ==
    IF i > Len(x) THEN labels
    ELSE IF labels[i] # -1 \/ ~IsCore(x, i)
         THEN DbscanInner(x, i + 1, labels, label_num)
         ELSE DbscanInner(x, i + 1,
                  [k \in 1..Len(x) |->
                      IF labels[k] = -1 /\ k \in Reach(x, {i})
                      THEN label_num ELSE labels[k]],
                  label_num + 1)

\* get_clusters(embedding) = c.fit_predict(embedding): one label per row,
\* -1 for noise
get_clusters(embedding) ==
    DbscanInner(embedding, 1, [k \in 1..Len(embedding) |-> -1], 0)

\* -------------------------------------------------------------- scoring
\* score_event(truth, submission): the weights of the hits whose track
\* holds more than half of its hits from the hit's particle and more than
\* half of that particle's hits.  The two tables are joined on hit_id.
score_event(tr, sub) ==
    LET Row(h) == CHOOSE k \in 1..Len(sub.hit_id) : sub.hit_id[k] = h
        track(k) == sub.track_id[Row(tr.hit_id[k])]
        T(k) == {j \in 1..Len(tr.hit_id) : track(j) = track(k)}
        P(k) == {j \in 1..Len(tr.hit_id) :
                    tr.particle_id[j] = tr.particle_id[k]}
        good(k) == /\ 2 * Cardinality(T(k) \cap P(k)) > Cardinality(T(k))
                   /\ 2 * Cardinality(T(k) \cap P(k)) > Cardinality(P(k))
    IN  SumSeq([k \in 1..Len(tr.hit_id) |->
                    IF good(k) THEN tr.weight[k] ELSE 0])

\* "{:.2f}".format(total / count), in hundredths: the quotient rounded to
\* two decimals, half to even
Format2f(total, count) ==
    LET q == total \div count
        r == total % count
    IN  IF 2 * r > count \/ (2 * r = count /\ q % 2 = 1) THEN q + 1 ELSE q

\* ----------------------------------------------------------- the samples
\* The shapes of the samples: the hits' features, particles and weights
\* and the predicted graph's edges.
Shapes ==
    << [n |-> 4, E |-> {<<1, 2>>, <<2, 1>>, <<2, 3>>, <<3, 2>>, <<3, 4>>, <<4, 3>>},
        feat |-> <<0, 0, 2, 2>>, pid |-> <<1, 1, 1, 2>>,
        weight |-> <<25, 25, 25, 25>>],
       [n |-> 3, E |-> {<<1, 2>>, <<2, 1>>, <<1, 3>>, <<3, 1>>, <<2, 3>>, <<3, 2>>},
        feat |-> <<2, 2, 2>>, pid |-> <<1, 1, 1>>,
        weight |-> <<40, 30, 30>>],
       [n |-> 3, E |-> {<<1, 2>>, <<2, 1>>},
        feat |-> <<0, 2, 0>>, pid |-> <<1, 2, 2>>,
        weight |-> <<50, 25, 25>>],
       [n |-> 2, E |-> {},
        feat |-> <<0, 2>>, pid |-> <<1, 2>>,
        weight |-> <<50, 50>>] >>

\* sample i: <<g_input, g_true>>.  g_input is the predicted graph with the
\* hits' feat, pid and weight; g_true is the augmented graph: the predicted
\* edges and the missed pairs of one particle, each with its truth label.
Sample(i, seed) ==
    LET sh   == Shapes[((i + seed) % Len(Shapes)) + 1]
        pids == [k \in 1..sh.n |-> 10 * i + sh.pid[k]]
        es   == EdgeSeq(sh.E)
        aug  == EdgeSeq(sh.E \cup {p \in PairsUp(sh.n) : pids[p[1]] = pids[p[2]]})
    IN  << [n |-> sh.n,
            src |-> Tensor([k \in 1..Len(es) |-> es[k][1]]),
            dst |-> Tensor([k \in 1..Len(es) |-> es[k][2]]),
            ndata |-> SetField(SetField(SetField(NoFields,
                         "feat", sh.feat), "pid", Tensor(pids)),
                         "weight", sh.weight),
            edata |-> NoFields],
           [n |-> sh.n,
            src |-> Tensor([k \in 1..Len(aug) |-> aug[k][1]]),
            dst |-> Tensor([k \in 1..Len(aug) |-> aug[k][2]]),
            ndata |-> NoFields,
            edata |-> SetField(NoFields, "truth",
                         Tensor([k \in 1..Len(aug) |->
                            IF pids[aug[k][1]] = pids[aug[k][2]]
                            THEN 1 ELSE 0]))] >>

\* ------------------------------------------------------------- the cells
\* torch's generator: its states, and the state after a draw
RngStates == 0..2
RngNext(r) == (r + 1) % 3

\* torch.randperm(n) in generator state r: the dataset's order turned by r
\* places
RandPerm(n, r) == [k \in 1..n |-> ((k - 1 + r) % n) + 1]

\* the order the loader's sampler hands out; drawn is a shuffling loader's
\* draw
SamplerOrder(loader, n, drawn) ==
    IF loader.shuffle THEN drawn ELSE SequentialOrder(n)

\* net.train()
NetTrain(model) == [model EXCEPT !.training = TRUE]

\* the network left in the mode it was in
NetEvalForgotten(model) == model

\* net.eval()
NetEval(model) == [model EXCEPT !.training = FALSE]

\* optimizer.step(): Adamax moves every parameter along its gradient.
\* Here a step on a nonzero loss moves each kernel to the other of
\* KernelChoices; the buffers stay where the forward pass left them.
OptimStep(model, lossval) ==
    IF lossval = 0 THEN model
    ELSE [model EXCEPT !.layers =
            [l \in 1..Len(@) |->
                [@[l] EXCEPT !.edge_weighting =
                    CHOOSE kernel \in KernelChoices : kernel # @]]]

TrainLoader ==
    [batch_size |-> batch_size, shuffle |-> TRUE, drop_last |-> TRUE]
EvalLoader == [batch_size |-> 1, shuffle |-> FALSE, drop_last |-> FALSE]

\* train_one_epoch begins: net.train(), and the loop's iterator draws the
\* epoch's order
EpochBegin ==
    /\ pc = "train"
    /\ epoch < nb_epochs
    /\ net' = NetTrain(net)
    /\ order' = SamplerOrder(dataloader, Len(dataset),
                             RandPerm(Len(dataset), rng))
    /\ rng' = IF dataloader.shuffle THEN RngNext(rng) ELSE rng
    /\ batch_i' = 0
    /\ pc' = "batch"
    /\ UNCHANGED <<gnnVars, lossVars, dataset, dataloader, epoch,
                   optim_steps, grad_enabled, pid, weight, emb_gnn, score_i,
                   truth, submission, avg_score, printed>>

\* one turn of train_one_epoch's loop: zero_grad, the forward pass, the
\* loss over the augmented graph, backward and the optimizer's step
TrainBatch ==
    /\ pc = "batch"
    /\ batch_i < LoaderLen(dataloader, Len(dataset))
    /\ LET b   == LoaderYield(dataloader, dataset, order, batch_i + 1)
           fw  == GNNForward(net, b.g_input)
           gt  == ApplyEdgesLoss(
                     [b.g_true EXCEPT !.ndata = SetField(@, "emb", fw.emb)])
       IN  /\ loss' = Mean(gt.edata["loss"])
           /\ score' = score_dist_accuracy(gt.edata["pred_dist"],
                                           gt.edata["truth"])
           /\ net' = OptimStep(fw.net, Mean(gt.edata["loss"]))
    /\ optim_steps' = optim_steps + 1
    /\ batch_i' = batch_i + 1
    /\ UNCHANGED <<pc, gnnVars, g_true, dataset, dataloader, rng, epoch, order,
                   grad_enabled, pid, weight, emb_gnn, score_i, truth,
                   submission, avg_score, printed>>

\* train_one_epoch returns
EpochEnd ==
    /\ pc = "batch"
    /\ batch_i = LoaderLen(dataloader, Len(dataset))
    /\ epoch' = epoch + 1
    /\ pc' = "train"
    /\ UNCHANGED <<net, gnnVars, lossVars, dataset, dataloader, rng, order,
                   batch_i, optim_steps, grad_enabled, pid, weight, emb_gnn,
                   score_i, truth, submission, avg_score, printed>>

\* the training cell is over; the embed cell makes its loader and its
\* lists, calls net.eval() and enters torch.autograd.no_grad()
EmbedBegin ==
    /\ pc = "train"
    /\ epoch = nb_epochs
    /\ dataloader' = EvalLoader
    /\ order' = SamplerOrder(EvalLoader, Len(dataset), order)
    /\ pid' = <<>>
    /\ weight' = <<>>
    /\ emb_gnn' = <<>>
    /\ net' = NetEval(net)
    /\ grad_enabled' = FALSE
    /\ pc' = "embed"
    /\ UNCHANGED <<gnnVars, lossVars, dataset, rng, epoch, batch_i, optim_steps,
                   score_i, truth, submission, avg_score, printed>>

\* one turn of the embed cell's loop
EmbedSample ==
    /\ pc = "embed"
    /\ Len(emb_gnn) < LoaderLen(dataloader, Len(dataset))
    /\ LET b  == LoaderYield(dataloader, dataset, order, Len(emb_gnn) + 1)
           fw == GNNForward(net, b.g_input)
       IN  /\ pid' = Append(pid, b.g_input.ndata["pid"])
           /\ weight' = Append(weight, b.g_input.ndata["weight"])
           /\ emb_gnn' = Append(emb_gnn, fw.emb)
           /\ net' = fw.net
    /\ UNCHANGED <<pc, gnnVars, lossVars, dataset, dataloader, rng, epoch, order,
                   batch_i, optim_steps, grad_enabled, score_i, truth,
                   submission, avg_score, printed>>

\* the embed cell's loop and its no_grad block are over; the scoring cell
\* sets avg_score = 0.0
EmbedEnd ==
    /\ pc = "embed"
    /\ Len(emb_gnn) = LoaderLen(dataloader, Len(dataset))
    /\ grad_enabled' = TRUE
    /\ avg_score' = 0
    /\ score_i' = 0
    /\ pc' = "score"
    /\ UNCHANGED <<net, gnnVars, lossVars, dataset, dataloader, rng, epoch, order,
                   batch_i, optim_steps, pid, weight, emb_gnn, truth,
                   submission, printed>>

\* one turn of the scoring cell's loop, on sample i = score_i
ScoreSample ==
    /\ pc = "score"
    /\ score_i < nb_samples
    /\ LET i        == score_i + 1
           clusters == get_clusters(emb_gnn[i])
           hit_ids  == [k \in 1..Len(clusters) |-> k - 1]
           tr       == [particle_id |-> pid[i], hit_id |-> hit_ids,
                        weight |-> weight[i]]
           sub      == [hit_id |-> hit_ids, track_id |-> clusters]
       IN  /\ truth' = tr
           /\ submission' = sub
           /\ avg_score' = avg_score + score_event(tr, sub)
    /\ score_i' = score_i + 1
    /\ UNCHANGED <<pc, net, gnnVars, lossVars, dataset, dataloader, rng, epoch,
                   order, batch_i, optim_steps, grad_enabled, pid, weight,
                   emb_gnn, printed>>

\* print("TrackML score: {:.2f}".format(avg_score / nb_samples))
PrintScore ==
    /\ pc = "score"
    /\ score_i = nb_samples
    /\ printed' = Format2f(avg_score, nb_samples)
    /\ pc' = "end"
    /\ UNCHANGED <<net, gnnVars, lossVars, dataset, dataloader, rng, epoch, order,
                   batch_i, optim_steps, grad_enabled, pid, weight, emb_gnn,
                   score_i, truth, submission, avg_score>>

\* the state after the Setup cell
Init ==
    /\ pc = "train"
    /\ net = NewGNN(nb_layers)
    /\ \E extra \in 0..MaxExtra, seed \in 0..1 :
          dataset = [i \in 1..(nb_samples + extra) |-> Sample(i, seed)]
    /\ dataloader = TrainLoader
    /\ rng \in RngStates
    /\ epoch = 0
    /\ order = <<>>
    /\ batch_i = 0
    /\ optim_steps = 0
    /\ grad_enabled = TRUE
    /\ pid = <<>> /\ weight = <<>> /\ emb_gnn = <<>>
    /\ score_i = 0
    /\ truth = NoTable /\ submission = NoTable
    /\ avg_score = 0
    /\ printed = 0
    /\ GNNIdle
    /\ LossIdle

Next ==
    \/ EpochBegin
    \/ TrainBatch
    \/ EpochEnd
    \/ EmbedBegin
    \/ EmbedSample
    \/ EmbedEnd
    \/ ScoreSample
    \/ PrintScore

Spec == Init /\ [][Next]_vars

\* ------------------------------------------------ claims about the cells
\* net.parameters(): the weights and biases, without the batch-norm
\* buffers and the mode
Parameters(model) ==
    [layers |-> [l \in 1..Len(model.layers) |->
                    [edge_weighting |-> model.layers[l].edge_weighting,
                     bn_weight |-> model.layers[l].bn.weight,
                     bn_bias |-> model.layers[l].bn.bias,
                     fc |-> model.layers[l].fc]],
     final_emb |-> model.final_emb]

\* the stages after the training loop
AfterTraining == pc \in {"embed", "score", "end"}

\* C5: the stages run in order.  Nothing is embedded before the 20 epochs
\* and all their optimizer steps are done; a sample is embedded only with
\* the network in evaluation mode and gradient tracking off; scoring
\* starts only when every sample has been embedded; and from the end of
\* the 20th epoch on no optimizer step is taken and the parameters stay as
\* they are.
C5_StagesInOrder ==
    /\ [](AfterTraining =>
            /\ epoch = nb_epochs
            /\ optim_steps = nb_epochs * (Len(dataset) \div batch_size))
    /\ [](pc # "embed" /\ ~AfterTraining => emb_gnn = <<>>)
    /\ [](pc = "embed" => ~net.training /\ ~grad_enabled)
    /\ [](pc \in {"score", "end"} => Len(emb_gnn) = Len(dataset))
    /\ [][Len(emb_gnn') > Len(emb_gnn) =>
            /\ ~net.training /\ ~grad_enabled
            /\ epoch = nb_epochs]_vars
    /\ [][epoch = nb_epochs =>
            /\ optim_steps' = optim_steps
            /\ Parameters(net') = Parameters(net)]_vars

\* the run is over, on a dataset larger than the scored part: every sample
\* was embedded after 20 epochs of optimizer steps
C5_Witness ==
    /\ pc = "end"
    /\ Len(dataset) > nb_samples
    /\ Len(emb_gnn) = Len(dataset)
    /\ optim_steps = nb_epochs * (Len(dataset) \div batch_size)
    /\ optim_steps > 0

\* the tables of dataset sample i, as the claim describes them: hit k-1 is
\* node k of the sample, with its particle, its weight and the DBSCAN
\* label of its row of the GNN's embedding of the sample
HitIds(n) == [k \in 1..n |-> k - 1]
TruthOf(i) ==
    LET smp == dataset[i][1]
    IN  [particle_id |-> smp.ndata["pid"], hit_id |-> HitIds(smp.n),
         weight |-> smp.ndata["weight"]]
SubmissionOf(i) ==
    LET smp == dataset[i][1]
    IN  [hit_id |-> HitIds(smp.n),
         track_id |-> get_clusters(GNNForward(net, smp).emb)]
RECURSIVE SumEventScores(_)
SumEventScores(i) ==
    IF i = 0 THEN 0
    ELSE SumEventScores(i - 1) + score_event(TruthOf(i), SubmissionOf(i))

\* C6: with at least 20 samples, the tables handed to score_event in turn
\* i are those of dataset sample i, one row per node in node order, with
\* the same hit ids 0..n-1 in both; and the printed score is the sum of the
\* 20 event scores divided by 20, shown to two decimals.
C6_TablesAligned ==
    /\ (pc = "score" /\ score_i >= 1) =>
          /\ truth = TruthOf(score_i)
          /\ submission = SubmissionOf(score_i)
          /\ truth.hit_id = submission.hit_id
          /\ Len(truth.hit_id) = dataset[score_i][1].n
          /\ \A k \in 1..Len(truth.hit_id) : truth.hit_id[k] = k - 1
    /\ pc = "end" =>
          /\ score_i = nb_samples
          /\ avg_score = SumEventScores(nb_samples)
          /\ 2 * Abs(nb_samples * printed - SumEventScores(nb_samples))
                <= nb_samples

\* the score has been printed, after rounds that scored both clustered and
\* noise hits, on a dataset with more samples than were scored
C6_Witness ==
    /\ pc = "end"
    /\ Len(dataset) > nb_samples
    /\ printed > 0
    /\ submission.track_id # <<>>
    /\ \E k \in 1..Len(submission.track_id) : submission.track_id[k] >= 0

====
